---------------------------- MODULE Spec2Model ----------------------------
(***************************************************************************)
(* grebe: UMI deduplication of paired-end FASTQ reads.                     *)
(*                                                                         *)
(* The model follows src/src/main.rs (the per-pair loop: masking, primer   *)
(* checks, UMI binning) and src/src/pair_handler.rs (PairHandler: the      *)
(* collision resolver, the quality-vote tally and the final flush).        *)
(*                                                                         *)
(* Byte strings are sequences of one-character strings.  A FASTQ record is *)
(* [name, desc, seq, qual] where desc is <<>> (None) or <<d>> (Some(d)).   *)
(* A panic (unwrap on None, slice out of range, unimplemented!()) ends the *)
(* run: the handler's field `panicked` becomes TRUE and pc = "aborted".    *)
(***************************************************************************)
EXTENDS Integers, Sequences, FiniteSets, TLC

VARIABLES
    cfg,            \* the parsed command line (main.rs 164-212)
    ph,             \* the PairHandler (pair_handler.rs 95-103, main.rs 234-239)
    input,          \* ghost: the pairs read so far, in order
    trace,          \* ghost: per pair read, what the loop body did with it
    written_from,   \* ghost: per pair written to the paired output, the
                    \*        index of the input pair being processed (0: flush)
    pass,           \* ghost: 0 in a plain run; on X followed by X, 1 while
                    \*        reading X and 2 while reading it again
    first_out,      \* ghost: what a run on X alone writes to the paired output
    pc              \* "loop", "done" (after the flush) or "aborted" (panic)

vars == <<cfg, ph, input, trace, written_from, pass, first_out, pc>>

-----------------------------------------------------------------------------
(* Bounds of the model *)

\* number of pairs the two input files hold at most
MaxPairs == 3

-----------------------------------------------------------------------------
(* Bytes *)

\* u8::to_ascii_uppercase on the bytes the model uses
to_ascii_uppercase(b) ==
    CASE b = "a" -> "A"
      [] b = "t" -> "T"
      [] b = "c" -> "C"
      [] b = "g" -> "G"
      [] b = "n" -> "N"
      [] b = "m" -> "M"
      [] OTHER -> b

\* the byte value of a quality character (`*qual as QualityVoteTotal`)
Byte(q) ==
    CASE q = "%" -> 37
      [] q = "5" -> 53
      [] q = "I" -> 73
      [] q = "~" -> 126
      [] OTHER -> 33

Min(a, b) == IF a <= b THEN a ELSE b

\* s[from..] of a Rust slice (from <= len)
SliceFrom(s, from) == SubSeq(s, from + 1, Len(s))

\* s[..to] of a Rust slice (to <= len)
SliceTo(s, to) == SubSeq(s, 1, to)

\* <[u8]>::starts_with
starts_with(s, prefix) ==
    /\ Len(prefix) <= Len(s)
    /\ SubSeq(s, 1, Len(prefix)) = prefix

Record(name, desc, seq, qual) ==
    [name |-> name, desc |-> desc, seq |-> seq, qual |-> qual]

-----------------------------------------------------------------------------
(* util.rs *)

DnaAlphabet == {"A", "C", "G", "T", "a", "c", "g", "t"}

\* bio::alphabets::dna::alphabet().is_word
is_dna_word(s) == \A i \in 1..Len(s) : s[i] \in DnaAlphabet

\* mutant of check_primer_base: K accepts T and C (the set of Y)
check_primer_base_k_as_y(primer_base, seq_base) ==
    LET p == to_ascii_uppercase(primer_base)
        s == to_ascii_uppercase(seq_base)
    IN  CASE p \in {"A", "T", "C", "G"} -> p = s
          [] p \in {"W"} -> s \in {"A", "T"}
          [] p = "M" -> s \in {"A", "C"}
          [] p = "R" -> s \in {"A", "G"}
          [] p \in {"Y", "K"} -> s \in {"T", "C"}
          [] p = "S" -> s \in {"C", "G"}
          [] p = "B" -> s # "A"
          [] p = "V" -> s # "T"
          [] p = "D" -> s # "C"
          [] p = "H" -> s # "G"
          [] p = "N" -> TRUE
          [] OTHER -> FALSE

check_primer_base(primer_base, seq_base) ==
    LET p == to_ascii_uppercase(primer_base)
        s == to_ascii_uppercase(seq_base)
    IN  CASE p \in {"A", "T", "C", "G"} -> p = s
          [] p = "W" -> s \in {"A", "T"}
          [] p = "M" -> s \in {"A", "C"}
          [] p = "R" -> s \in {"A", "G"}
          [] p = "Y" -> s \in {"T", "C"}
          [] p = "K" -> s \in {"T", "G"}
          [] p = "S" -> s \in {"C", "G"}
          [] p = "B" -> s # "A"
          [] p = "V" -> s # "T"
          [] p = "D" -> s # "C"
          [] p = "H" -> s # "G"
          [] p = "N" -> TRUE
          [] OTHER -> FALSE

\* check_primer(primer, seq).unwrap_or_default(): Err("seq invalid") and
\* Ok(false) both give false.  The callers guarantee |seq| >= |primer|.
check_primer(primer, seq) ==
    IF ~is_dna_word(SliceTo(seq, Len(primer))) THEN FALSE
    ELSE IF Len(seq) < Len(primer) THEN FALSE
    ELSE \A i \in 1..Len(primer) : check_primer_base(primer[i], seq[i])

-----------------------------------------------------------------------------
(* pair_handler.rs: collision resolution methods *)

Methods ==
    {"None", "KeepFirst", "KeepLast", "KeepLongestLeft", "KeepLongestRight",
     "KeepLongestExtend", "QualityVote"}

KeepLongestMethods == {"KeepLongestLeft", "KeepLongestRight", "KeepLongestExtend"}

\* mutant of _compare_for_extension: KeepLongestExtend takes the longer
\* record without looking at its content
_compare_for_extension_unchecked(method, old, new) ==
    IF Len(old.seq) < Len(new.seq) THEN new
    ELSE IF Len(old.seq) = Len(new.seq) THEN
        IF method \in {"KeepLongestLeft", "KeepLongestExtend"} THEN old ELSE new
    ELSE old

\* UMICollisionResolutionMethod::_compare_for_extension (only called with a
\* KeepLongest* method)
_compare_for_extension(method, old, new) ==
    IF Len(old.seq) < Len(new.seq) THEN
        IF method = "KeepLongestExtend"
        THEN (IF starts_with(new.seq, old.seq) THEN new ELSE old)
        ELSE new
    ELSE IF Len(old.seq) = Len(new.seq) THEN
        IF method \in {"KeepLongestLeft", "KeepLongestExtend"} THEN old ELSE new
    ELSE old

-----------------------------------------------------------------------------
(* pair_handler.rs: PairHandler *)

Panic(h) == [h EXCEPT !.panicked = TRUE]

\* records_written += 1: the counter main.rs 435-451 reads; its increment is in
\* the part of PairHandler that is not in src/ ("incremented at each physical
\* write to the paired output")
count_written(h) == [h EXCEPT !.records_written = @ + 1]

\* what fastq::Writer::write is handed for one record by write_pair:
\* write(name(), Some(id()), seq(), qual()), and name() is the id
written_record(r) == Record(r.name, <<r.name>>, r.seq, r.qual)

\* mutant of write_pair: the reverse writer is handed the forward record
write_pair_forward_twice(h, pair) ==
    count_written(
        [h EXCEPT !.paired =
            Append(@, <<written_record(pair[1]), written_record(pair[1])>>)])

write_pair(h, pair) ==
    count_written(
        [h EXCEPT !.paired =
            Append(@, <<written_record(pair[1]), written_record(pair[2])>>)])

\* the vote channel of a base, in the tuple order A, T, C, G; 0: abstains;
\* -1: unimplemented!()
Channel(base) ==
    CASE to_ascii_uppercase(base) = "A" -> 1
      [] to_ascii_uppercase(base) = "T" -> 2
      [] to_ascii_uppercase(base) = "C" -> 3
      [] to_ascii_uppercase(base) = "G" -> 4
      [] to_ascii_uppercase(base) = "N" -> 0
      [] OTHER -> -1

ZeroVotes == <<0, 0, 0, 0>>

\* mutant of AddVote: `=` for `+=`
AddVote_overwrites(totals, base, qual) ==
    [c \in 1..4 |-> IF c = Channel(base) THEN Byte(qual) ELSE totals[c]]

\* `votes.get_mut(ind).unwrap().<channel> += *qual as QualityVoteTotal`
\* (a u32: a tally of at most a few bytes per pair stays far below 2^32)
AddVote(totals, base, qual) ==
    [c \in 1..4 |->
        IF c = Channel(base) THEN totals[c] + Byte(qual) ELSE totals[c]]

\* one of the two loops of update_vote_vec: seq.iter().zip(qual).dropping(n)
\* .enumerate(), tallied into the vote vector v
TallySide(v, seq, qual, dropped) ==
    LET n == Min(Len(seq), Len(qual)) - dropped
    IN  [i \in 1..Len(v) |->
            IF i <= n THEN AddVote(v[i], seq[i + dropped], qual[i + dropped])
            ELSE v[i]]

\* whether that loop panics: unimplemented!() on a base that is none of
\* A, T, C, G, N, or get_mut(ind).unwrap() beyond the vote vector
TallySidePanics(v, seq, qual, dropped) ==
    LET n == Min(Len(seq), Len(qual)) - dropped
    IN  \E i \in 1..n :
            \/ Channel(seq[i + dropped]) = -1
            \/ (Channel(seq[i + dropped]) > 0 /\ i > Len(v))

update_vote_vec_panics(votes, pair, umi_len) ==
    \/ TallySidePanics(votes[1], pair[1].seq, pair[1].qual, umi_len)
    \/ TallySidePanics(votes[2], pair[2].seq, pair[2].qual, 0)

update_vote_vec(votes, pair, umi_len) ==
    << TallySide(votes[1], pair[1].seq, pair[1].qual, umi_len),
       TallySide(votes[2], pair[2].seq, pair[2].qual, 0) >>

\* iter::repeat((0, 0, 0, 0)).take(n)
Zeros(n) == [i \in 1..n |-> ZeroVotes]

\* the ballots of the first pair of a bin (176-180, before the tally);
\* callers guarantee |pair.0| >= |umi|
new_votes(umi, pair) ==
    << Zeros(Len(pair[1].seq) - Len(umi)), Zeros(Len(pair[2].seq)) >>

\* "stretch to size sufficient to fit data" (212-217)
saturating_sub(a, b) == IF a >= b THEN a - b ELSE 0

\* mutant of stretch_votes: the ballots are left as long as they were
stretch_votes_keeps_length(votes, umi, pair) == votes

stretch_votes(votes, umi, pair) ==
    << votes[1] \o Zeros(saturating_sub(Len(pair[1].seq) - Len(umi), Len(votes[1]))),
       votes[2] \o Zeros(saturating_sub(Len(pair[2].seq), Len(votes[2]))) >>

\* the ballots of a bin after its first pair (176-182); the callers guarantee
\* that no step of it panics
first_votes(umi, pair) ==
    update_vote_vec(new_votes(umi, pair), pair, Len(umi))

\* the ballots of a bin after one more pair (210-219)
next_votes(votes, umi, pair) ==
    update_vote_vec(stretch_votes(votes, umi, pair), pair, Len(umi))

\* the None arm: straight to disk, the UMI prefixed to both names
insert_none(h, umi, pair) ==
    LET id_prefix == IF Len(umi) = 0 THEN <<>> ELSE umi
        pair_new ==
            << Record(id_prefix \o <<" ">> \o pair[1].name, pair[1].desc,
                      pair[1].seq, pair[1].qual),
               Record(id_prefix \o <<" ">> \o pair[2].name, pair[2].desc,
                      pair[2].seq, pair[2].qual) >>
    IN  write_pair([h EXCEPT !.good_records = @ + 1], pair_new)

\* adds or replaces umi |-> v in a map
MapInsert(m, k, v) ==
    [x \in DOMAIN m \cup {k} |-> IF x = k THEN v ELSE m[x]]

\* mutant of insert_new_bin: KeepFirst keeps the pair it wrote
insert_new_bin_keep_first_retains(h, umi, pair) ==
    IF h.collision_resolution_method = "KeepFirst"
    THEN [write_pair(h, pair) EXCEPT !.good_records = @ + 1,
                                     !.umi_bins = MapInsert(@, umi, {pair})]
    ELSE [h EXCEPT !.good_records = @ + 1,
                   !.umi_bins = MapInsert(@, umi, {pair})]

\* the first pair under a key: `!self.umi_bins.contains_key(umi)`
insert_new_bin(h, umi, pair) ==
    LET method == h.collision_resolution_method
        counted(g, set) ==
            [g EXCEPT !.good_records = @ + 1,
                      !.umi_bins = MapInsert(@, umi, set)]
    IN  CASE method = "QualityVote" ->
                IF Len(pair[1].seq) < Len(umi)
                   \/ update_vote_vec_panics(new_votes(umi, pair), pair, Len(umi))
                THEN Panic(h)
                ELSE counted(
                        [h EXCEPT !.quality_votes =
                            MapInsert(@, umi, first_votes(umi, pair))],
                        {})
          [] method = "KeepFirst" -> counted(write_pair(h, pair), {})
          [] OTHER -> counted(h, {pair})

\* KeepLongest*: `old = set.iter().next().unwrap()`, insert the reduced pair,
\* then remove old
keep_longest_replace(set, method, pair) ==
    { (set \cup { << _compare_for_extension(method, old[1], pair[1]),
                     _compare_for_extension(method, old[2], pair[2]) >> })
        \ {old} : old \in set }

\* mutant of keep_last_replace: no set.clear()
keep_last_replace_no_clear(set, pair) == set \cup {pair}

\* the set left by KeepLast: clear, then insert
keep_last_replace(set, pair) == {pair}

\* mutant of insert_existing_bin: KeepFirst writes the later pairs too
insert_existing_bin_keep_first_writes(h, umi, pair) ==
    IF h.collision_resolution_method = "KeepFirst" THEN {write_pair(h, pair)}
    ELSE {h}

\* mutant of insert_existing_bin: a pair that joins the bin of another key
\* opens an empty bin for the UMI it carries
insert_existing_bin_opens_own_bin(h, umi, pair) ==
    {[h EXCEPT !.umi_bins =
        MapInsert(@, SliceTo(pair[1].seq, Len(umi)),
                  IF SliceTo(pair[1].seq, Len(umi)) = umi THEN h.umi_bins[umi] ELSE {})]}

\* mutant of insert_existing_bin: a later pair of a QualityVote bin is counted
\* as a good record too
insert_existing_bin_counts_votes(h, umi, pair) ==
    LET method == h.collision_resolution_method
        set == h.umi_bins[umi]
    IN  CASE method \in {"None", "KeepFirst"} -> {h}
          [] method = "QualityVote" ->
                IF umi \notin DOMAIN h.quality_votes
                   \/ Len(pair[1].seq) < Len(umi)
                   \/ update_vote_vec_panics(
                        stretch_votes(h.quality_votes[umi], umi, pair), pair, Len(umi))
                THEN {Panic(h)}
                ELSE {[h EXCEPT !.quality_votes[umi] = next_votes(@, umi, pair),
                                !.good_records = @ + 1]}
          [] method = "KeepLast" ->
                {[h EXCEPT !.umi_bins[umi] = keep_last_replace(set, pair)]}
          [] OTHER ->
                IF set = {} THEN {Panic(h)}
                ELSE {[h EXCEPT !.umi_bins[umi] = s] :
                        s \in keep_longest_replace(set, method, pair)}

\* a later pair under a key the bin table holds.  The result is a set of
\* handlers: the iteration order of a HashSet picks `old`.
insert_existing_bin(h, umi, pair) ==
    LET method == h.collision_resolution_method
        set == h.umi_bins[umi]
    IN  CASE method \in {"None", "KeepFirst"} -> {h}
          [] method = "QualityVote" ->
                IF umi \notin DOMAIN h.quality_votes
                   \/ Len(pair[1].seq) < Len(umi)
                   \/ update_vote_vec_panics(
                        stretch_votes(h.quality_votes[umi], umi, pair), pair, Len(umi))
                THEN {Panic(h)}
                ELSE {[h EXCEPT !.quality_votes[umi] = next_votes(@, umi, pair)]}
          [] method = "KeepLast" ->
                {[h EXCEPT !.umi_bins[umi] = keep_last_replace(set, pair)]}
          [] OTHER ->
                IF set = {} THEN {Panic(h)}
                ELSE {[h EXCEPT !.umi_bins[umi] = s] :
                        s \in keep_longest_replace(set, method, pair)}

\* PairHandler::insert_pair: the handlers it can leave
insert_pair(h, umi, pair) ==
    IF h.collision_resolution_method = "None" THEN {insert_none(h, umi, pair)}
    ELSE IF umi \notin DOMAIN h.umi_bins THEN {insert_new_bin(h, umi, pair)}
    ELSE insert_existing_bin(h, umi, pair)

\* mutant of count_votes: the first index holding the maximum
count_votes_first_max(totals) ==
    LET best == CHOOSE i \in 1..4 :
                    /\ \A j \in 1..4 : totals[j] <= totals[i]
                    /\ \A j \in 1..(i - 1) : totals[j] < totals[i]
    IN  <<"A", "T", "C", "G">>[best]

\* count_votes: (0..4).max_by_key(...) returns the last index holding the
\* maximum; the index is then converted to a base
count_votes(totals) ==
    LET best == CHOOSE i \in 1..4 :
                    /\ \A j \in 1..4 : totals[j] <= totals[i]
                    /\ \A j \in (i + 1)..4 : totals[j] < totals[i]
    IN  <<"A", "T", "C", "G">>[best]

QualityVoteDesc == "constructed by grebe from quality voting"

\* the pair of consensus records save_remaining builds for one bin
resolved_pair(umi, votes) ==
    LET resolved == << [i \in 1..Len(votes[1]) |-> count_votes(votes[1][i])],
                       [i \in 1..Len(votes[2]) |-> count_votes(votes[2][i])] >>
    IN  << Record(umi, <<QualityVoteDesc>>, resolved[1],
                  [i \in 1..Len(resolved[1]) |-> "~"]),
           Record(umi, <<QualityVoteDesc>>, resolved[2],
                  [i \in 1..Len(resolved[2]) |-> "~"]) >>

\* one iteration of save_remaining's loop, for the bin umi
save_bin(h, umi) ==
    LET method == h.collision_resolution_method
        pairs == h.umi_bins[umi]
    IN  CASE method \in {"KeepFirst", "None"} -> {h}
          [] method = "QualityVote" ->
                IF umi \notin DOMAIN h.quality_votes THEN {Panic(h)}
                ELSE {write_pair(h, resolved_pair(umi, h.quality_votes[umi]))}
          [] OTHER ->
                IF pairs = {} THEN {Panic(h)}
                ELSE {write_pair(h, p) : p \in pairs}

\* save_remaining over the bins in the order the HashMap yields them; a panic
\* ends the loop
RECURSIVE save_remaining(_, _)
save_remaining(h, order) ==
    IF order = <<>> \/ h.panicked THEN {h}
    ELSE UNION { save_remaining(g, Tail(order)) : g \in save_bin(h, Head(order)) }

\* the orders in which a HashMap or HashSet may yield the elements of S
Orders(S) ==
    { o \in [1..Cardinality(S) -> S] : \A i, j \in DOMAIN o : o[i] = o[j] => i = j }

\* write_unpaired(record, which): the record goes to the unpaired writer of
\* that side and the side's counter grows (its body is not in src/)
write_unpaired(h, record, which) ==
    LET side == IF which = "FORWARD" THEN 1 ELSE 2
    IN  [h EXCEPT !.unpaired[side] = Append(@, record),
                  !.records_unpaired[side] = @ + 1]

-----------------------------------------------------------------------------
(* main.rs: UMI binning *)

\* bio::alignment::distance::simd::hamming on texts of equal length
hamming(a, b) == Cardinality({ i \in 1..Len(a) : a[i] # b[i] })

\* find_within_radius: the first key, in the HashMap's iteration order, within
\* the radius: any of them
find_within_radius(umi_bins, umi, radius) ==
    { k \in DOMAIN umi_bins : hamming(k, umi) <= radius }

RECURSIVE Flatten(_)
Flatten(ss) == IF ss = <<>> THEN <<>> ELSE Head(ss) \o Flatten(Tail(ss))

\* (lo..n).combinations(r), in itertools' (lexicographic) order; 0-based
RECURSIVE combinations(_, _, _)
combinations(lo, n, r) ==
    IF r = 0 THEN << <<>> >>
    ELSE IF lo >= n THEN <<>>
    ELSE [i \in 1..Len(combinations(lo + 1, n, r - 1)) |->
                <<lo>> \o combinations(lo + 1, n, r - 1)[i]]
         \o combinations(lo + 1, n, r)

\* repeat("ATCG".chars()).take(r).multi_cartesian_product(), in its order
RECURSIVE multi_cartesian_product(_)
multi_cartesian_product(r) ==
    IF r = 0 THEN << <<>> >>
    ELSE Flatten([b \in 1..4 |->
            [i \in 1..Len(multi_cartesian_product(r - 1)) |->
                << <<"A", "T", "C", "G">>[b] >> \o multi_cartesian_product(r - 1)[i]]])

\* umi with umi[indices[j]] replaced by bases[j]
substitute(umi, indices, bases) ==
    [p \in 1..Len(umi) |->
        IF \E j \in 1..Len(indices) : indices[j] + 1 = p
        THEN bases[CHOOSE j \in 1..Len(indices) : indices[j] + 1 = p]
        ELSE umi[p]]

\* mutant of neighbours: the positions start at 1 instead of 0
neighbours_skip_first_position(umi, radius) ==
    Flatten([c \in 1..Len(combinations(1, Len(umi), radius)) |->
        [b \in 1..Len(multi_cartesian_product(radius)) |->
            substitute(umi, combinations(1, Len(umi), radius)[c],
                       multi_cartesian_product(radius)[b])]])

\* every umi_modified of the two nested loops (360-377), in order
neighbours(umi, radius) ==
    Flatten([c \in 1..Len(combinations(0, Len(umi), radius)) |->
        [b \in 1..Len(multi_cartesian_product(radius)) |->
            substitute(umi, combinations(0, Len(umi), radius)[c],
                       multi_cartesian_product(radius)[b])]])

\* mutant of proactive_keys: the last enumerated candidate that is a key, not
\* the first
proactive_keys_last_hit(c, h, umi) ==
    LET cand == neighbours(umi, c.hamming_radius)
    IN  IF c.collision_resolution_method = "None"
        THEN { cand[i] : i \in 1..Len(cand) }
        ELSE IF \E i \in 1..Len(cand) : cand[i] \in DOMAIN h.umi_bins
        THEN { cand[CHOOSE i \in 1..Len(cand) :
                    /\ cand[i] \in DOMAIN h.umi_bins
                    /\ \A j \in (i + 1)..Len(cand) : cand[j] \notin DOMAIN h.umi_bins] }
        ELSE {umi}

\* proactive binning (348-392): the keys the pair may be inserted under
proactive_keys(c, h, umi) ==
    LET cand == neighbours(umi, c.hamming_radius)
        size(k) == IF k \in DOMAIN h.umi_bins THEN Cardinality(h.umi_bins[k]) ELSE 0
    IN  IF c.collision_resolution_method = "None" THEN
            \* found_bins holds every candidate; max_by_key takes the last of
            \* the biggest in the HashSet's iteration order
            LET found_bins == { cand[i] : i \in 1..Len(cand) }
            IN  IF found_bins = {} THEN {umi}
                ELSE { k \in found_bins : \A x \in found_bins : size(x) <= size(k) }
        ELSE
            IF \E i \in 1..Len(cand) : cand[i] \in DOMAIN h.umi_bins
            THEN { cand[CHOOSE i \in 1..Len(cand) :
                        /\ cand[i] \in DOMAIN h.umi_bins
                        /\ \A j \in 1..(i - 1) : cand[j] \notin DOMAIN h.umi_bins] }
            ELSE {umi}

\* mutant of bin_keys: no shortcut for radius 0, and the scan accepts one
\* difference too many
bin_keys_radius_off_by_one(c, h, umi) ==
    IF umi \in DOMAIN h.umi_bins THEN {umi}
    ELSE IF find_within_radius(h.umi_bins, umi, c.hamming_radius + 1) = {} THEN {umi}
    ELSE find_within_radius(h.umi_bins, umi, c.hamming_radius + 1)

\* mutant of bin_keys: on an exact hit the known keys are scanned all the
\* same, and any of them within the radius may be taken
bin_keys_scans_on_hit(c, h, umi) ==
    IF c.hamming_radius = 0 THEN {umi}
    ELSE IF umi \in DOMAIN h.umi_bins
    THEN find_within_radius(h.umi_bins, umi, c.hamming_radius)
    ELSE IF c.proactive_binning THEN proactive_keys(c, h, umi)
    ELSE IF find_within_radius(h.umi_bins, umi, c.hamming_radius) = {} THEN {umi}
    ELSE find_within_radius(h.umi_bins, umi, c.hamming_radius)

\* the keys the binning engine (338-404) may pass to insert_pair for umi
bin_keys(c, h, umi) ==
    IF c.hamming_radius = 0 THEN {umi}
    ELSE IF umi \in DOMAIN h.umi_bins THEN {umi}
    ELSE IF c.proactive_binning THEN proactive_keys(c, h, umi)
    ELSE IF find_within_radius(h.umi_bins, umi, c.hamming_radius) = {} THEN {umi}
    ELSE find_within_radius(h.umi_bins, umi, c.hamming_radius)

-----------------------------------------------------------------------------
(* main.rs: the pair classifier (283-336) *)

\* seq.iter().all(|s| *s == b'N')
all_n(seq) == \A i \in 1..Len(seq) : seq[i] = "N"

HasPrimer(opt) == opt # <<>>

\* the masking match (283-298): "" when the pair goes on
masking_verdict(pair) ==
    CASE all_n(pair[1].seq) /\ ~all_n(pair[2].seq) -> "unpaired_0_as_REVERSE"
      [] ~all_n(pair[1].seq) /\ all_n(pair[2].seq) -> "unpaired_1_as_FORWARD"
      [] all_n(pair[1].seq) /\ all_n(pair[2].seq) -> "both_masked"
      [] OTHER -> ""

\* mutant of forward_primer_verdict: the primer is looked for at the start of
\* the read, not after the UMI
forward_primer_verdict_no_offset(c, pair) ==
    IF ~HasPrimer(c.enforce_primers[1]) THEN ""
    ELSE IF Len(pair[1].seq) < c.umi_length + Len(c.enforce_primers[1][1])
    THEN "no_forward_primer"
    ELSE IF ~check_primer(c.enforce_primers[1][1], pair[1].seq) THEN "no_forward_primer"
    ELSE ""

\* mutant of forward_primer_verdict: no umi_is_forward_primer arm
forward_primer_verdict_one_reason(c, pair) ==
    IF ~HasPrimer(c.enforce_primers[1]) THEN ""
    ELSE IF Len(pair[1].seq) < c.umi_length + Len(c.enforce_primers[1][1])
    THEN "no_forward_primer"
    ELSE IF ~check_primer(c.enforce_primers[1][1], SliceFrom(pair[1].seq, c.umi_length))
    THEN "no_forward_primer"
    ELSE ""

\* the forward primer check (300-322): "" when the pair goes on
forward_primer_verdict(c, pair) ==
    IF ~HasPrimer(c.enforce_primers[1]) THEN ""
    ELSE LET primer == c.enforce_primers[1][1]
             seq == pair[1].seq
         IN  IF Len(seq) < c.umi_length + Len(primer) THEN "no_forward_primer"
             ELSE LET starts_with_primer == check_primer(primer, seq)
                      starts_with_umi_then_primer ==
                          check_primer(primer, SliceFrom(seq, c.umi_length))
                  IN  IF c.umi_length > 0 /\ starts_with_primer
                         /\ ~starts_with_umi_then_primer
                      THEN "umi_is_forward_primer"
                      ELSE IF ~starts_with_umi_then_primer THEN "no_forward_primer"
                      ELSE ""

\* mutant of reverse_primer_verdict: the primer is looked for after
\* umi_length bases of the reverse read, as for the forward read
reverse_primer_verdict_umi_offset(c, pair) ==
    IF ~HasPrimer(c.enforce_primers[2]) THEN ""
    ELSE IF Len(pair[2].seq) < c.umi_length + Len(c.enforce_primers[2][1])
    THEN "no_reverse_primer"
    ELSE IF ~check_primer(c.enforce_primers[2][1], SliceFrom(pair[2].seq, c.umi_length))
    THEN "no_reverse_primer"
    ELSE ""

\* the reverse primer check (323-336): "" when the pair goes on
reverse_primer_verdict(c, pair) ==
    IF ~HasPrimer(c.enforce_primers[2]) THEN ""
    ELSE LET primer == c.enforce_primers[2][1]
             seq == pair[2].seq
         IN  IF Len(seq) < Len(primer) THEN "no_reverse_primer"
             ELSE IF ~check_primer(primer, seq) THEN "no_reverse_primer"
             ELSE ""

\* the first check that ends the iteration with `continue 'pairs`, or "keep"
classify(c, pair) ==
    IF masking_verdict(pair) # "" THEN masking_verdict(pair)
    ELSE IF forward_primer_verdict(c, pair) # "" THEN forward_primer_verdict(c, pair)
    ELSE IF reverse_primer_verdict(c, pair) # "" THEN reverse_primer_verdict(c, pair)
    ELSE "keep"

DropReasons ==
    {"both_masked", "no_forward_primer", "umi_is_forward_primer", "no_reverse_primer"}

\* mutant of count_drop: the counters of the other reasons are cleared
count_drop_clears_others(h, reason) ==
    [h EXCEPT !.pair_drop_reason_count =
        [r \in DOMAIN @ |-> IF r = reason THEN @[r] + 1 ELSE 0]]

\* pair_drop_reason_count.<reason> += 1
count_drop(h, reason) == [h EXCEPT !.pair_drop_reason_count[reason] = @ + 1]

\* what the loop does on a verdict other than "keep"
apply_verdict(h, pair, verdict) ==
    CASE verdict = "unpaired_0_as_REVERSE" -> write_unpaired(h, pair[1], "REVERSE")
      [] verdict = "unpaired_1_as_FORWARD" -> write_unpaired(h, pair[2], "FORWARD")
      [] OTHER -> count_drop(h, verdict)

\* one step of the ghost trace
Step(verdict, umi, key, h) ==
    [verdict |-> verdict, umi |-> umi, key |-> key, keys_before |-> DOMAIN h.umi_bins]

\* the binning engine and the insertion (338-404) for a pair the classifier
\* keeps: every [h, step] it can end in
bin_and_insert(c, h, pair) ==
    IF c.umi_length = 0
    THEN {[h |-> g, step |-> Step("insert", <<>>, <<>>, h)] :
            g \in insert_pair(h, <<>>, pair)}
    ELSE IF Len(pair[1].seq) < c.umi_length
    THEN \* read_pair.0.seq()[..umi_length]: range end out of bounds
         {[h |-> Panic(h), step |-> Step("panic", <<>>, <<>>, h)]}
    ELSE LET umi == SliceTo(pair[1].seq, c.umi_length)
         IN  UNION { {[h |-> g, step |-> Step("insert", umi, k, h)] :
                        g \in insert_pair(h, k, pair)} :
                     k \in bin_keys(c, h, umi) }

\* mutant of loop_body: the both_masked arm lacks its `continue 'pairs`
loop_body_masked_falls_through(c, h, pair) ==
    IF classify(c, pair) = "both_masked"
    THEN bin_and_insert(c, count_drop(h, "both_masked"), pair)
    ELSE IF classify(c, pair) # "keep"
    THEN {[h |-> apply_verdict(h, pair, classify(c, pair)),
           step |-> Step(classify(c, pair), <<>>, <<>>, h)]}
    ELSE bin_and_insert(c, h, pair)

\* one iteration of the 'pairs loop (245-405): every [h, step] it can end in
loop_body(c, h, pair) ==
    IF classify(c, pair) # "keep"
    THEN {[h |-> apply_verdict(h, pair, classify(c, pair)),
           step |-> Step(classify(c, pair), <<>>, <<>>, h)]}
    ELSE bin_and_insert(c, h, pair)

-----------------------------------------------------------------------------
(* The inputs of the model *)

Pair(name, fseq, fqual, rseq, rqual) ==
    << Record(name, <<>>, fseq, fqual), Record(name, <<"d">>, rseq, rqual) >>

\* pairs for the resolver: UMIs AA (three pairs of different lengths and
\* contents), AT and TT, a forward read shorter than the UMI, a masked read
ResolverPool ==
    { Pair(<<"a">>, <<"A","A","A">>, <<"I","I","I">>, <<"C">>, <<"I">>),
      Pair(<<"m">>, <<"A","A","T">>, <<"I","I","5">>, <<"C","G">>, <<"%","5">>),
      Pair(<<"b">>, <<"A","A","A","C">>, <<"I","I","%","I">>, <<"C","G">>, <<"I","I">>),
      Pair(<<"c">>, <<"A","T","A">>, <<"I","I","I">>, <<"C">>, <<"I">>),
      Pair(<<"d">>, <<"T","T","a">>, <<"I","I","I">>, <<"T","N">>, <<"I","I">>),
      Pair(<<"n">>, <<"A","N","A">>, <<"I","I","I">>, <<"C">>, <<"I">>),
      Pair(<<"s">>, <<"A">>, <<"I">>, <<"C">>, <<"I">>),
      Pair(<<"f">>, <<"N","N">>, <<"I","I">>, <<"C","G">>, <<"I","I">>) }

\* pairs for the classifier: kept, each drop reason, each masking verdict
ClassifierPool ==
    { Pair(<<"b">>, <<"A","A","A","C">>, <<"I","I","5","I">>, <<"C","G">>, <<"I","I">>),
      Pair(<<"a">>, <<"A","A","A">>, <<"I","I","I">>, <<"C">>, <<"I">>),
      Pair(<<"d">>, <<"T","T","A">>, <<"I","I","I">>, <<"C","T">>, <<"I","I">>),
      Pair(<<"w">>, <<"T","T","G">>, <<"I","I","I">>, <<"T">>, <<"I">>),
      Pair(<<"u">>, <<"A","A","G">>, <<"I","I","I">>, <<"C","G">>, <<"I","I">>),
      Pair(<<"e">>, <<"A","A","G">>, <<"I","I","I">>, <<"N">>, <<"I">>),
      Pair(<<"f">>, <<"N","N">>, <<"I","I">>, <<"C","G">>, <<"I","I">>),
      Pair(<<"g">>, <<"N">>, <<"I">>, <<"N">>, <<"I">>),
      Pair(<<"s">>, <<"A">>, <<"I">>, <<"C","G">>, <<"I","I">>) }

\* -u: 0 (no UMI) or 2
UmiLengths == {0, 2}

\* --hr
HammingArgs == {0, 1}

\* --forward-primer: none, or M (A or C)
ForwardPrimers == { <<>>, << <<"M">> >> }

\* --reverse-primer: none, or CG
ReversePrimers == { <<>>, << <<"C","G">> >> }

\* main.rs 164-212: the settings the loop reads.  With no UMI the method is
\* None; the radius is capped at the UMI length; proactive binning defaults
\* to radius <= 3 and a method other than None, and can be forced.
Config(method_arg, umi_length, hr_arg, proactive_arg, fp, rp) ==
    LET method == IF umi_length = 0 THEN "None" ELSE method_arg
        radius == Min(hr_arg, umi_length)
    IN  [ collision_resolution_method |-> method,
          umi_length |-> umi_length,
          hamming_radius |-> radius,
          proactive_binning |->
              IF proactive_arg = "default" THEN (radius <= 3 /\ method # "None")
              ELSE proactive_arg = "true",
          enforce_primers |-> <<fp, rp>> ]

\* the runs without primers exercise the resolver and the binning engine,
\* the runs with primers exercise the classifier (radius 0)
Configs(methods) ==
    { Config(m, l, 0, "default", <<>>, <<>>) : m \in methods, l \in UmiLengths }
    \cup
    { Config(m, l, r, p, <<>>, <<>>) :
        m \in methods, l \in UmiLengths \ {0}, r \in HammingArgs \ {0},
        p \in {"true", "false"} }
    \cup
    { Config(m, l, 0, "default", fp, rp) :
        m \in methods, l \in UmiLengths, fp \in ForwardPrimers, rp \in ReversePrimers }

\* under None with proactive binning every neighbour of the UMI is a possible
\* key, so those runs read from two pairs only
NeighbourPool ==
    { p \in ResolverPool : p[1].name \in { <<"a">>, <<"c">> } }

\* a pair whose quality strings are all 'I'
PlainPair(name, fseq, rseq) ==
    Pair(name, fseq, [i \in 1..Len(fseq) |-> "I"], rseq, [i \in 1..Len(rseq) |-> "I"])

\* pairs for the primer checks: every base, an N and a lower-case base at the
\* start of each read and after a UMI of two bases, and reads too short for
\* the primer
PrimerPool ==
    { PlainPair(<<"p1">>, <<"A","A","A">>, <<"A">>),
      PlainPair(<<"p2">>, <<"T","A","T">>, <<"T">>),
      PlainPair(<<"p3">>, <<"C","A","C">>, <<"C">>),
      PlainPair(<<"p4">>, <<"G","A","G">>, <<"G","T","A">>),
      PlainPair(<<"p5">>, <<"A","A","N">>, <<"N","C">>),
      PlainPair(<<"p6">>, <<"N","A","a">>, <<"c","T">>),
      PlainPair(<<"p7">>, <<"A">>, <<"G">>),
      PlainPair(<<"p8">>, <<"A","A","A","N">>, <<"T","C">>) }

\* --forward-primer for the primer checks: every IUPAC letter, and a primer of
\* two bases
IupacForwardPrimers ==
    { <<b>> : b \in {"A", "T", "C", "G", "W", "m", "R", "Y", "K", "S",
                     "B", "V", "D", "H", "N"} }
    \cup { <<"a", "N">> }

\* --reverse-primer for the primer checks
IupacReversePrimers == { <<"N">>, <<"H">>, <<"K", "Y">> }

\* the (forward, reverse) primer settings of the runs on PrimerPool
PrimerSettings ==
    { << <<fp>>, <<>> >> : fp \in IupacForwardPrimers }
    \cup { << <<>>, <<rp>> >> : rp \in IupacReversePrimers }
    \cup { << <<fp>>, <<rp>> >> : fp \in { <<"N">>, <<"W">> }, rp \in IupacReversePrimers }

\* the runs that exercise the primer checks: KeepFirst, radius 0
PrimerConfigs ==
    { Config("KeepFirst", l, 0, "default", ps[1], ps[2]) :
        l \in UmiLengths, ps \in PrimerSettings }

\* pairs for the tally, read with a UMI of one base: after the UMI A the
\* forward reads GT (qualities II) and GA (%I) tie on T and A at their second
\* position, the reverse reads A and T tie or not with the quality, a read
\* ends on an N that nothing else covers, a read is in lower case; one pair
\* has the UMI T
BallotPool ==
    { Pair(<<"v1">>, <<"A","G","T">>, <<"I","I","I">>, <<"A">>, <<"I">>),
      Pair(<<"v2">>, <<"A","G","A">>, <<"I","%","I">>, <<"T">>, <<"I">>),
      Pair(<<"v3">>, <<"A","A","A","N">>, <<"I","I","I","I">>, <<"T">>, <<"%">>),
      Pair(<<"v4">>, <<"A","c">>, <<"I","5">>, <<"g">>, <<"5">>),
      Pair(<<"v5">>, <<"T","G">>, <<"I","I">>, <<"C">>, <<"I">>) }

\* -u of the runs on BallotPool
BallotUmiLength == 1

\* the runs that exercise the tally: QualityVote, -u 1, radius 0
BallotConfigs ==
    { Config("QualityVote", BallotUmiLength, 0, "default", <<>>, <<>>) }

PoolOf(c) ==
    IF c \in BallotConfigs THEN BallotPool
    ELSE IF c.enforce_primers \in PrimerSettings THEN PrimerPool
    ELSE IF c.enforce_primers # << <<>>, <<>> >> THEN ClassifierPool
    ELSE IF c.collision_resolution_method = "None" /\ c.proactive_binning
            /\ c.hamming_radius > 0
    THEN NeighbourPool
    ELSE ResolverPool

\* main.rs 234-239 and PairHandler::default
NewPairHandler(method, total) ==
    [ collision_resolution_method |-> method,
      umi_bins |-> <<>>,
      quality_votes |-> <<>>,
      records_total |-> total,
      good_records |-> 0,
      records_written |-> 0,
      records_unpaired |-> <<0, 0>>,
      pair_drop_reason_count |-> [r \in DropReasons |-> 0],
      paired |-> <<>>,
      unpaired |-> << <<>>, <<>> >>,
      panicked |-> FALSE ]

-----------------------------------------------------------------------------
(* The run *)

Init ==
    /\ cfg \in Configs(Methods)
    /\ \E total \in 0..MaxPairs :
            ph = NewPairHandler(cfg.collision_resolution_method, total)
    /\ input = <<>>
    /\ trace = <<>>
    /\ written_from = <<>>
    /\ pass = 0
    /\ first_out = <<>>
    /\ pc = "loop"

\* the ghost written_from after the handler went from h to g while the pair
\* number n was processed (n = 0: the flush)
Attribute(h, g, n) ==
    written_from \o [i \in 1..(Len(g.paired) - Len(h.paired)) |-> n]

\* the loop reads the next pair of the input files and processes it
ReadPair ==
    /\ pc = "loop"
    /\ pass \in {0, 1}
    /\ IF pass = 0 THEN Len(trace) < ph.records_total
                   ELSE 2 * Len(trace) < ph.records_total
    /\ \E pair \in PoolOf(cfg) : \E o \in loop_body(cfg, ph, pair) :
            /\ ph' = o.h
            /\ input' = Append(input, pair)
            /\ trace' = Append(trace, o.step)
            /\ written_from' = Attribute(ph, o.h, Len(trace) + 1)
            /\ pc' = IF o.h.panicked THEN "aborted" ELSE "loop"
    /\ UNCHANGED <<cfg, pass, first_out>>

\* the input is X followed by X: the loop reads a pair of the second copy.
\* On the first of them the ghost first_out records what the run on X alone
\* would have written (its loop, then its flush).
ReadAgain ==
    /\ pc = "loop"
    /\ pass \in {1, 2}
    /\ 2 * Len(input) = ph.records_total
    /\ Len(trace) < ph.records_total
    /\ IF pass = 1
       THEN \E o \in Orders(DOMAIN ph.umi_bins) : \E g \in save_remaining(ph, o) :
                first_out' = g.paired
       ELSE first_out' = first_out
    /\ pass' = 2
    /\ \E o \in loop_body(cfg, ph, input[Len(trace) - Len(input) + 1]) :
            /\ ph' = o.h
            /\ trace' = Append(trace, o.step)
            /\ written_from' = Attribute(ph, o.h, Len(trace) + 1)
            /\ pc' = IF o.h.panicked THEN "aborted" ELSE "loop"
    /\ UNCHANGED <<cfg, input>>

\* the loop is over, after the last pair of the shorter input file (zip, 244;
\* records_total counts the longer one, 237): write_remaining
\* (PairHandler::save_remaining).  The run on X followed by X reads all of it.
Finish ==
    /\ pc = "loop"
    /\ IF pass = 0 THEN Len(trace) <= ph.records_total
                   ELSE Len(trace) = ph.records_total
    /\ \E o \in Orders(DOMAIN ph.umi_bins) : \E g \in save_remaining(ph, o) :
            /\ ph' = g
            /\ written_from' = Attribute(ph, g, 0)
            /\ pc' = IF g.panicked THEN "aborted" ELSE "done"
    /\ UNCHANGED <<cfg, input, trace, pass, first_out>>

Next == ReadPair \/ Finish

Spec == Init /\ [][Next]_vars

-----------------------------------------------------------------------------
(* The run on X followed by X, under KeepFirst *)

\* number of pairs of X at most
MaxHalf == 2

InitTwice ==
    /\ cfg \in { c \in Configs({"KeepFirst"}) : c.collision_resolution_method = "KeepFirst" }
    /\ \E half \in 0..MaxHalf :
            ph = NewPairHandler(cfg.collision_resolution_method, 2 * half)
    /\ input = <<>>
    /\ trace = <<>>
    /\ written_from = <<>>
    /\ pass = 1
    /\ first_out = <<>>
    /\ pc = "loop"

NextTwice == ReadPair \/ ReadAgain \/ Finish

SpecTwice == InitTwice /\ [][NextTwice]_vars

-----------------------------------------------------------------------------
(* The runs with every kind of primer *)

\* number of pairs of those runs at most
MaxPrimerPairs == 2

InitPrimers ==
    /\ cfg \in PrimerConfigs
    /\ \E total \in 0..MaxPrimerPairs :
            ph = NewPairHandler(cfg.collision_resolution_method, total)
    /\ input = <<>>
    /\ trace = <<>>
    /\ written_from = <<>>
    /\ pass = 0
    /\ first_out = <<>>
    /\ pc = "loop"

SpecPrimers == InitPrimers /\ [][Next]_vars

-----------------------------------------------------------------------------
(* The runs that exercise the tally *)

\* number of pairs of those runs at most
MaxBallotPairs == 3

InitBallots ==
    /\ cfg \in BallotConfigs
    /\ \E total \in 0..MaxBallotPairs :
            ph = NewPairHandler(cfg.collision_resolution_method, total)
    /\ input = <<>>
    /\ trace = <<>>
    /\ written_from = <<>>
    /\ pass = 0
    /\ first_out = <<>>
    /\ pc = "loop"

SpecBallots == InitBallots /\ [][Next]_vars

-----------------------------------------------------------------------------
(* Vocabulary of the properties *)

\* the input pair processed at step i of the trace
PairAt(i) == input[((i - 1) % Len(input)) + 1]

\* the first L bytes of the forward sequence of a pair that has them
UmiOf(pair) == SliceTo(pair[1].seq, cfg.umi_length)

\* the steps at which the loop called insert_pair
Inserted == { i \in 1..Len(trace) : trace[i].verdict = "insert" }

SumDrops(h) ==
    h.pair_drop_reason_count["both_masked"]
    + h.pair_drop_reason_count["no_forward_primer"]
    + h.pair_drop_reason_count["umi_is_forward_primer"]
    + h.pair_drop_reason_count["no_reverse_primer"]

RECURSIVE SumOver(_, _)
SumOver(S, f) ==
    IF S = {} THEN 0
    ELSE LET x == CHOOSE y \in S : TRUE IN f[x] + SumOver(S \ {x}, f)

\* records_held_until_flush: the pairs the resolver retains for the flush,
\* one per quality-vote tally, less the pairs the flush has written
records_held_until_flush ==
    SumOver(DOMAIN ph.umi_bins, [k \in DOMAIN ph.umi_bins |-> Cardinality(ph.umi_bins[k])])
    + Cardinality(DOMAIN ph.quality_votes)
    - Cardinality({ n \in 1..Len(written_from) : written_from[n] = 0 })

Accounted ==
    ph.records_written + ph.records_unpaired[1] + ph.records_unpaired[2]
    + SumDrops(ph) + records_held_until_flush

-----------------------------------------------------------------------------
(* C1 *)

\* C1: under KeepLast, KeepLongestLeft, KeepLongestRight and
\* KeepLongestExtend every bin of the bin table holds exactly one retained
\* pair, whatever was inserted.
C1_ExactlyOneRetainedPair ==
    ph.collision_resolution_method \in {"KeepLast"} \cup KeepLongestMethods
    => \A k \in DOMAIN ph.umi_bins : Cardinality(ph.umi_bins[k]) = 1

-----------------------------------------------------------------------------
(* C2 *)

\* every pair of both input files has been read and the flush is over
ReadToTheEnd == pc = "done" /\ Len(trace) = ph.records_total

-----------------------------------------------------------------------------
(* C3 *)

\* C3: with radius 0 and L > 0, two kept pairs are inserted under the same
\* bin key if and only if the first L bytes of their forward sequences are
\* byte-equal.
C3_BinClosureExact ==
    (cfg.hamming_radius = 0 /\ cfg.umi_length > 0)
    => \A i, j \in Inserted :
            (trace[i].key = trace[j].key) <=> (UmiOf(PairAt(i)) = UmiOf(PairAt(j)))

\* three kept pairs at radius 0: two share a UMI and a bin, the third has neither
C3_Witness ==
    /\ cfg.hamming_radius = 0
    /\ cfg.umi_length > 0
    /\ Inserted = {1, 2, 3}
    /\ PairAt(1) # PairAt(2)
    /\ trace[1].key = trace[2].key
    /\ trace[3].key # trace[1].key

-----------------------------------------------------------------------------
(* C4 *)

ProactiveBins ==
    /\ cfg.hamming_radius > 0
    /\ cfg.proactive_binning
    /\ cfg.collision_resolution_method # "None"

CalledBases(k) == \A p \in 1..Len(k) : k[p] \in {"A", "T", "C", "G"}

-----------------------------------------------------------------------------
(* C5 *)

\* the written pair w carries the sequences and qualities of the input pair p,
\* and names that end with p's names
WrittenFromPair(w, p) ==
    \A side \in 1..2 :
        /\ w[side].seq = p[side].seq
        /\ w[side].qual = p[side].qual
        /\ Len(w[side].name) >= Len(p[side].name)
        /\ SliceFrom(w[side].name, Len(w[side].name) - Len(p[side].name)) = p[side].name

\* C5: under KeepFirst and None the pairs written to the paired output are
\* input pairs, each written while it is processed, so that they appear in
\* the output in the order of the input.
C5_OrderPreserved ==
    ph.collision_resolution_method \in {"KeepFirst", "None"}
    => /\ Len(written_from) = Len(ph.paired)
       /\ \A n \in 1..Len(ph.paired) :
            /\ written_from[n] \in 1..Len(trace)
            /\ WrittenFromPair(ph.paired[n], PairAt(written_from[n]))
       /\ \A n, o \in 1..Len(ph.paired) : n < o => written_from[n] < written_from[o]

\* a finished KeepFirst run that wrote the first and the third of three pairs
C5_Witness ==
    /\ pc = "done"
    /\ ph.collision_resolution_method = "KeepFirst"
    /\ written_from = <<1, 3>>
    /\ PairAt(1) # PairAt(3)
    /\ Inserted = {1, 2, 3}

-----------------------------------------------------------------------------
(* C6 *)

\* C6: under KeepFirst, while and after the second copy of X is read, the
\* paired output is what the run on X alone writes.
C6_KeepFirstIdempotent ==
    (ph.collision_resolution_method = "KeepFirst" /\ pass = 2)
    => ph.paired = first_out

\* a finished run on X ++ X at radius 1, X of two kept pairs of which the
\* second joined the bin of the first
C6_Witness ==
    /\ pc = "done"
    /\ pass = 2
    /\ ph.collision_resolution_method = "KeepFirst"
    /\ cfg.hamming_radius = 1
    /\ Len(input) = 2
    /\ Inserted = {1, 2, 3, 4}
    /\ Len(first_out) = 1
    /\ trace[2].key # trace[2].umi
    /\ ph.paired = first_out

-----------------------------------------------------------------------------
(* C7 *)

\* the steps at which a pair was inserted under the key k
InsertedUnder(k) == { i \in Inserted : trace[i].key = k }

\* the ballots of the bin k after the pairs ps, tallied in that order
RECURSIVE VotesInOrder(_, _)
VotesInOrder(k, ps) ==
    IF Len(ps) = 1 THEN first_votes(k, ps[1])
    ELSE next_votes(VotesInOrder(k, SubSeq(ps, 1, Len(ps) - 1)), k, ps[Len(ps)])

\* what write_pair writes for the consensus of those ballots
ConsensusWritten(k, votes) ==
    LET consensus == resolved_pair(k, votes)
    IN  << written_record(consensus[1]), written_record(consensus[2]) >>

\* the pairs written under the name k
WrittenUnder(k) == { ph.paired[n] : n \in { x \in 1..Len(ph.paired) : ph.paired[x][1].name = k } }

\* C7: under QualityVote the pair written at the flush for a bin is the
\* consensus of the bin's pairs tallied in any order.
C7_VoteDeterminism ==
    (ph.collision_resolution_method = "QualityVote" /\ pc = "done")
    => \A k \in DOMAIN ph.umi_bins :
        /\ WrittenUnder(k) # {}
        /\ \A o \in Orders(InsertedUnder(k)) :
                WrittenUnder(k) =
                    { ConsensusWritten(k, VotesInOrder(k, [x \in 1..Len(o) |-> PairAt(o[x])])) }

\* a finished QualityVote run with three different pairs in one bin
C7_Witness ==
    /\ pc = "done"
    /\ ph.collision_resolution_method = "QualityVote"
    /\ Inserted = {1, 2, 3}
    /\ trace[1].key = trace[2].key /\ trace[2].key = trace[3].key
    /\ PairAt(1) # PairAt(2) /\ PairAt(2) # PairAt(3) /\ PairAt(1) # PairAt(3)
    /\ Len(ph.paired) = 1

-----------------------------------------------------------------------------
(* C8 *)

AnyBase == {"A", "T", "C", "G", "N"}

\* the bases an IUPAC primer base denotes
IupacBases(p) ==
    CASE p = "A" -> {"A"}
      [] p = "T" -> {"T"}
      [] p = "C" -> {"C"}
      [] p = "G" -> {"G"}
      [] p = "W" -> {"A", "T"}
      [] p = "M" -> {"A", "C"}
      [] p = "R" -> {"A", "G"}
      [] p = "Y" -> {"T", "C"}
      [] p = "K" -> {"T", "G"}
      [] p = "S" -> {"C", "G"}
      [] p = "B" -> AnyBase \ {"A"}
      [] p = "V" -> AnyBase \ {"T"}
      [] p = "D" -> AnyBase \ {"C"}
      [] p = "H" -> AnyBase \ {"G"}
      [] p = "N" -> AnyBase
      [] OTHER -> {}

\* match(primer, seq[from..from+|primer|]), false when seq is too short
IupacMatchAt(primer, seq, from) ==
    /\ Len(seq) >= from + Len(primer)
    /\ \A i \in 1..Len(primer) :
            to_ascii_uppercase(seq[from + i]) \in IupacBases(to_ascii_uppercase(primer[i]))

\* the steps whose pair lacks the forward primer after the UMI
LacksForwardPrimer ==
    { i \in 1..Len(trace) :
        /\ HasPrimer(cfg.enforce_primers[1])
        /\ ~IupacMatchAt(cfg.enforce_primers[1][1], PairAt(i)[1].seq, cfg.umi_length) }

UnpairedVerdicts == {"unpaired_0_as_REVERSE", "unpaired_1_as_FORWARD"}

\* C8 as claimed: a pair whose forward.seq[L..L+|P_f|] does not match the
\* forward primer is dropped: a drop reason is counted for it and none of its
\* records reaches an output, whatever the masking of its reads.
C8_PrimerStrictness ==
    \A i \in LacksForwardPrimer : trace[i].verdict \in DropReasons

\* C8 amended: such a pair is never inserted into a bin and never written to
\* the paired output; it is dropped with a drop reason unless exactly one of
\* its reads is all 'N', and then the masking check, which comes first,
\* writes one record to an unpaired output.
C8_PrimerStrictnessAmended ==
    \A i \in LacksForwardPrimer :
        /\ i \notin Inserted
        /\ \A n \in 1..Len(written_from) : written_from[n] # i
        /\ IF all_n(PairAt(i)[1].seq) = all_n(PairAt(i)[2].seq)
           THEN trace[i].verdict \in DropReasons
           ELSE trace[i].verdict \in UnpairedVerdicts

\* an unmasked pair without the primer was dropped, and a pair without the
\* primer whose reverse read is masked went to an unpaired output
C8_Witness ==
    /\ cfg.umi_length > 0
    /\ Len(trace) = 2
    /\ LacksForwardPrimer = {1, 2}
    /\ trace[1].verdict = "umi_is_forward_primer"
    /\ trace[2].verdict = "unpaired_1_as_FORWARD"
    /\ ~all_n(PairAt(2)[1].seq)

-----------------------------------------------------------------------------
(* C9 *)

OnlyReverseMasked(p) == ~all_n(p[1].seq) /\ all_n(p[2].seq)

OnlyForwardMasked(p) == all_n(p[1].seq) /\ ~all_n(p[2].seq)

BothMasked(p) == all_n(p[1].seq) /\ all_n(p[2].seq)

MaskedAs(kind, p) ==
    CASE kind = "reverse" -> OnlyReverseMasked(p)
      [] kind = "forward" -> OnlyForwardMasked(p)
      [] OTHER -> BothMasked(p)

\* the sequences, on one side, of the first n pairs read that are masked
\* in the given way
RECURSIVE SeqsOf(_, _, _)
SeqsOf(n, side, kind) ==
    IF n = 0 THEN <<>>
    ELSE IF MaskedAs(kind, PairAt(n))
    THEN Append(SeqsOf(n - 1, side, kind), PairAt(n)[side].seq)
    ELSE SeqsOf(n - 1, side, kind)

\* C9: the unpaired-forward output holds the forward records of the pairs
\* whose reverse read alone is all 'N', the unpaired-reverse output the
\* reverse records of the pairs whose forward read alone is all 'N', the
\* counters count them, and both_masked counts the pairs with both reads all
\* 'N': the all-'N' record is never the one written.
C9_MaskingVerdicts ==
    /\ [n \in 1..Len(ph.unpaired[1]) |-> ph.unpaired[1][n].seq]
            = SeqsOf(Len(trace), 1, "reverse")
    /\ [n \in 1..Len(ph.unpaired[2]) |-> ph.unpaired[2][n].seq]
            = SeqsOf(Len(trace), 2, "forward")
    /\ ph.records_unpaired[1] = Len(SeqsOf(Len(trace), 1, "reverse"))
    /\ ph.records_unpaired[2] = Len(SeqsOf(Len(trace), 2, "forward"))
    /\ ph.pair_drop_reason_count["both_masked"] = Len(SeqsOf(Len(trace), 1, "both"))

-----------------------------------------------------------------------------
(* C10 *)

\* the steps that ended with the given verdict
StepsWith(verdict) == { i \in 1..Len(trace) : trace[i].verdict = verdict }

\* C10: every pair read gets exactly one verdict, of the first check it
\* matches: one unpaired write, one count of one drop reason, or one insert;
\* a masked pair is settled by the masking check, a pair that then fails the
\* forward primer check by that one; and each drop-reason counter counts the
\* pairs dropped for that reason.
C10_OneVerdictPerPair ==
    /\ \A i \in 1..Len(trace) :
            /\ trace[i].verdict \in UnpairedVerdicts \cup DropReasons \cup {"insert"}
            /\ (all_n(PairAt(i)[1].seq) \/ all_n(PairAt(i)[2].seq))
                    => trace[i].verdict \in UnpairedVerdicts \cup {"both_masked"}
            /\ (~all_n(PairAt(i)[1].seq) /\ ~all_n(PairAt(i)[2].seq)
                    /\ i \in LacksForwardPrimer)
                    => trace[i].verdict \in {"no_forward_primer", "umi_is_forward_primer"}
    /\ \A r \in DropReasons :
            ph.pair_drop_reason_count[r] = Cardinality(StepsWith(r))

-----------------------------------------------------------------------------
(* C11 *)

\* the n bases of seq after the first `from` are base calls: A, C, G or T in
\* either case
CalledWindow(seq, from, n) ==
    /\ Len(seq) >= from + n
    /\ \A i \in 1..n : seq[from + i] \in {"A", "C", "G", "T", "a", "c", "g", "t"}

\* the IUPAC match, refused on a window that holds anything but base calls
CalledMatchAt(primer, seq, from) ==
    CalledWindow(seq, from, Len(primer)) /\ IupacMatchAt(primer, seq, from)

\* the two readings of "matches": the IUPAC match of the primer alone, or the
\* one refused on a window that holds anything but base calls
MatchesAt(called, primer, seq, from) ==
    IF called THEN CalledMatchAt(primer, seq, from)
    ELSE IupacMatchAt(primer, seq, from)

\* the steps whose pair has no read that is all 'N'
PassedMasking == { i \in 1..Len(trace) : masking_verdict(PairAt(i)) = "" }

ForwardVerdicts == {"no_forward_primer", "umi_is_forward_primer"}

\* the forward-primer rule for the step i, for a given reading of "matches"
ForwardPrimerRule(i, called) ==
    LET primer == cfg.enforce_primers[1][1]
        seq == PairAt(i)[1].seq
    IN  IF Len(seq) < cfg.umi_length + Len(primer)
        THEN trace[i].verdict = "no_forward_primer"
        ELSE IF cfg.umi_length > 0 /\ MatchesAt(called, primer, seq, 0)
                /\ ~MatchesAt(called, primer, seq, cfg.umi_length)
        THEN trace[i].verdict = "umi_is_forward_primer"
        ELSE IF ~MatchesAt(called, primer, seq, cfg.umi_length)
        THEN trace[i].verdict = "no_forward_primer"
        ELSE trace[i].verdict \notin ForwardVerdicts

\* C11 as claimed: with a forward primer, a pair that passed masking is
\* dropped as no_forward_primer if the forward read is shorter than L + |P_f|,
\* else as umi_is_forward_primer iff L > 0 and P_f IUPAC-matches the start of
\* the read but not the bases after the UMI, else as no_forward_primer iff
\* P_f does not IUPAC-match the bases after the UMI, else it goes on.
C11_ForwardPrimerRule ==
    HasPrimer(cfg.enforce_primers[1])
    => \A i \in PassedMasking : ForwardPrimerRule(i, FALSE)

\* C11 amended: the same rule, where P_f matches a window only if every base
\* of the window is A, C, G or T (in either case) and is accepted by the
\* primer base at its position.
C11_ForwardPrimerRuleAmended ==
    HasPrimer(cfg.enforce_primers[1])
    => \A i \in PassedMasking : ForwardPrimerRule(i, TRUE)

\* with a UMI of two bases and the primer N, the read AAN, whose base after
\* the UMI is N, was dropped as umi_is_forward_primer
C11_Witness ==
    /\ cfg.umi_length = 2
    /\ cfg.enforce_primers[1] = << <<"N">> >>
    /\ Len(trace) = 2
    /\ PairAt(1)[1].seq = <<"A", "A", "N">>
    /\ trace[1].verdict = "umi_is_forward_primer"
    /\ PairAt(2)[1].seq = <<"A">>
    /\ trace[2].verdict = "no_forward_primer"

-----------------------------------------------------------------------------
(* C12 *)

\* the reverse-primer rule for the step i, for a given reading of "matches"
ReversePrimerRule(i, called) ==
    LET primer == cfg.enforce_primers[2][1]
        seq == PairAt(i)[2].seq
    IN  IF Len(seq) < Len(primer) \/ ~MatchesAt(called, primer, seq, 0)
        THEN trace[i].verdict = "no_reverse_primer"
        ELSE trace[i].verdict \in {"insert", "panic"}

-----------------------------------------------------------------------------
(* C13 *)

\* check_primer on the windows the loop hands it for the pair of step i
\* agrees with the given reading of "matches"
MatchAgrees(i, called) ==
    /\ \A from \in {0, cfg.umi_length} :
        ( /\ HasPrimer(cfg.enforce_primers[1])
          /\ Len(PairAt(i)[1].seq) >= cfg.umi_length + Len(cfg.enforce_primers[1][1]) )
        => ( check_primer(cfg.enforce_primers[1][1], SliceFrom(PairAt(i)[1].seq, from))
                <=> MatchesAt(called, cfg.enforce_primers[1][1], PairAt(i)[1].seq, from) )
    /\ ( /\ HasPrimer(cfg.enforce_primers[2])
         /\ Len(PairAt(i)[2].seq) >= Len(cfg.enforce_primers[2][1]) )
        => ( check_primer(cfg.enforce_primers[2][1], PairAt(i)[2].seq)
                <=> MatchesAt(called, cfg.enforce_primers[2][1], PairAt(i)[2].seq, 0) )

\* C13 as claimed: match(primer, seq) is true iff at every primer position
\* the sequence base is in the set the primer base denotes, case-insensitively,
\* a primer base N matching every sequence base, N included.
C13_IupacMatch ==
    \A i \in 1..Len(trace) : MatchAgrees(i, FALSE)

\* C13 amended: match(primer, seq) is true iff every base of the window is
\* A, C, G or T (in either case) and is in the set the primer base denotes;
\* a window that holds an N matches no primer, not even a primer base N.
C13_IupacMatchAmended ==
    \A i \in 1..Len(trace) : MatchAgrees(i, TRUE)

\* the primer aN was compared with the windows AN (no match, for the N) and
\* AA (a match) of the read AAAN
C13_Witness ==
    /\ cfg.enforce_primers = << << <<"a", "N">> >>, <<>> >>
    /\ cfg.umi_length = 2
    /\ Len(trace) = 1
    /\ PairAt(1)[1].seq = <<"A", "A", "A", "N">>
    /\ check_primer(<<"a", "N">>, PairAt(1)[1].seq)
    /\ ~check_primer(<<"a", "N">>, SliceFrom(PairAt(1)[1].seq, 2))
    /\ trace[1].verdict = "umi_is_forward_primer"

-----------------------------------------------------------------------------
(* C14 *)

\* the places of the paired output written while the pair of step i was
\* processed (i = 0: by the flush)
WrittenAt(i) == { n \in 1..Len(written_from) : written_from[n] = i }

\* the pair of step i was written once, while it was processed, with the
\* given prefix before both names and its sequences and qualities as read
WrittenOnceWithPrefix(i, prefix) ==
    /\ Cardinality(WrittenAt(i)) = 1
    /\ \A n \in WrittenAt(i) : \A side \in 1..2 :
            /\ ph.paired[n][side].name = prefix \o PairAt(i)[side].name
            /\ ph.paired[n][side].seq = PairAt(i)[side].seq
            /\ ph.paired[n][side].qual = PairAt(i)[side].qual

\* C14: under None every insertion under a key k writes the pair at once,
\* with k and one space before both record names, and records k in the bin
\* table with an empty set, so that k is a key of the table from then on.
C14_NoneInsert ==
    ph.collision_resolution_method = "None"
    => \A i \in Inserted :
        /\ WrittenOnceWithPrefix(i, trace[i].key \o <<" ">>)
        /\ trace[i].key \in DOMAIN ph.umi_bins
        /\ ph.umi_bins[trace[i].key] = {}

-----------------------------------------------------------------------------
(* C15 *)

\* C15: with L = 0 the method is None, no bin key is computed, and every pair
\* that passes the classifier is written to the paired output exactly once,
\* both written names being byte-equal to the names read.
C15_NoUmiMode ==
    cfg.umi_length = 0
    => /\ ph.collision_resolution_method = "None"
       /\ \A i \in 1..Len(trace) :
            classify(cfg, PairAt(i)) = "keep"
            => /\ i \in Inserted
               /\ trace[i].key = <<>>
               /\ WrittenOnceWithPrefix(i, <<>>)

-----------------------------------------------------------------------------
(* C16 *)

\* the insertions under a key the bin table did not hold yet
FirstInserted == { i \in Inserted : trace[i].key \notin trace[i].keys_before }

\* C16: under KeepFirst the first pair inserted under a key is written at that
\* moment, unchanged (name, description, sequence and quality of both
\* records), and nothing else is ever written: a later insertion under the
\* key writes nothing and leaves the bin table (the keys seen, each with an
\* empty set) and records_written as they were, and so does the flush.
C16_KeepFirstWritesFirst ==
    (ph.collision_resolution_method = "KeepFirst" /\ pc # "aborted")
    => /\ \A i \in FirstInserted :
            /\ Cardinality(WrittenAt(i)) = 1
            /\ \A n \in WrittenAt(i) : ph.paired[n] = PairAt(i)
       /\ \A i \in Inserted \ FirstInserted : WrittenAt(i) = {}
       /\ WrittenAt(0) = {}
       /\ ph.records_written = Cardinality(FirstInserted)
       /\ DOMAIN ph.umi_bins = { trace[i].key : i \in Inserted }
       /\ \A k \in DOMAIN ph.umi_bins : ph.umi_bins[k] = {}

-----------------------------------------------------------------------------
(* C17 *)

\* the last step that inserted a pair under the key k
LastInsertedUnder(k) ==
    CHOOSE i \in InsertedUnder(k) : \A j \in InsertedUnder(k) : j <= i

\* what write_pair writes for the pair of step i
WrittenFormOf(i) ==
    << written_record(PairAt(i)[1]), written_record(PairAt(i)[2]) >>

\* C17: under KeepLast nothing is written before the flush, and the flush
\* writes, for every bin, the last pair inserted under its key and nothing
\* else.
C17_KeepLastWritesLast ==
    ph.collision_resolution_method = "KeepLast"
    => /\ pc = "loop" => ph.paired = <<>>
       /\ \A n \in 1..Len(written_from) : written_from[n] = 0
       /\ pc = "done"
            => /\ Len(ph.paired) = Cardinality(DOMAIN ph.umi_bins)
               /\ DOMAIN ph.umi_bins = { trace[i].key : i \in Inserted }
               /\ \A k \in DOMAIN ph.umi_bins :
                    \E n \in 1..Len(ph.paired) :
                        ph.paired[n] = WrittenFormOf(LastInsertedUnder(k))

\* radius 1: pairs with the UMIs AA, then AT, then AA again went to one bin,
\* and the flush wrote the third pair only
C17_Witness ==
    /\ pc = "done"
    /\ ph.collision_resolution_method = "KeepLast"
    /\ cfg.hamming_radius = 1
    /\ Inserted = {1, 2, 3}
    /\ trace[1].umi = <<"A", "A">> /\ trace[2].umi = <<"A", "T">>
    /\ trace[3].umi = <<"A", "A">>
    /\ PairAt(3) # PairAt(1)
    /\ DOMAIN ph.umi_bins = { <<"A", "A">> }
    /\ ph.paired = << WrittenFormOf(3) >>

-----------------------------------------------------------------------------
(* C18 *)

\* the largest of the four tallies of one position
MaxTally(totals) ==
    CHOOSE t \in { totals[c] : c \in 1..4 } : \A c \in 1..4 : totals[c] <= t

\* rec is a consensus of the ballots v: one base per position, each a channel
\* holding the maximum tally there, under a quality of as many '~'
IsConsensusOf(rec, v) ==
    /\ Len(rec.seq) = Len(v)
    /\ \A i \in 1..Len(v) :
            /\ rec.seq[i] \in {"A", "T", "C", "G"}
            /\ v[i][Channel(rec.seq[i])] = MaxTally(v[i])
    /\ Len(rec.qual) = Len(rec.seq)
    /\ \A i \in 1..Len(rec.qual) : rec.qual[i] = "~"

\* the positions of the output written by the flush under the name k
FlushedUnder(k) ==
    { n \in 1..Len(ph.paired) : written_from[n] = 0 /\ ph.paired[n][1].name = k }

\* the consensus pair of bin k as the claim describes it, description
\* included or not
ConsensusPairWritten(k, with_desc) ==
    /\ Cardinality(FlushedUnder(k)) = 1
    /\ \A n \in FlushedUnder(k) : \A side \in 1..2 :
            /\ ph.paired[n][side].name = k
            /\ with_desc => ph.paired[n][side].desc = <<QualityVoteDesc>>
            /\ IsConsensusOf(ph.paired[n][side], ph.quality_votes[k][side])

\* C18: the QualityVote flush writes, for every bin k, one pair of consensus
\* records: each base a channel of maximum tally at its position, both names
\* k, the description the fixed literal, the quality all '~' and as long as
\* the sequence.
C18_QualityVoteFlush ==
    (ph.collision_resolution_method = "QualityVote" /\ pc = "done")
    => /\ DOMAIN ph.quality_votes = DOMAIN ph.umi_bins
       /\ \A k \in DOMAIN ph.umi_bins : ConsensusPairWritten(k, TRUE)

-----------------------------------------------------------------------------
(* C19 *)

\* the channels holding the maximum tally of one position
Leaders(totals) == { c \in 1..4 : totals[c] = MaxTally(totals) }

\* the positions (bin, side, index) of the consensus records
ConsensusPositions ==
    UNION { { <<ks[1], ks[2], i>> : i \in 1..Len(ph.quality_votes[ks[1]][ks[2]]) } :
            ks \in (DOMAIN ph.quality_votes) \X {1, 2} }

\* the base the flush wrote at such a position
ConsensusBase(k, side, i) ==
    LET n == CHOOSE n \in FlushedUnder(k) : TRUE
    IN  ph.paired[n][side].seq[i]

\* every consensus base wins its ties against the channels on the side
\* `later` of it in the order A, T, C, G, and loses those on the other side
TiesGoTo(later) ==
    (ph.collision_resolution_method = "QualityVote" /\ pc = "done")
    => \A pos \in ConsensusPositions :
        /\ FlushedUnder(pos[1]) # {}
        /\ Channel(ConsensusBase(pos[1], pos[2], pos[3]))
                \in Leaders(ph.quality_votes[pos[1]][pos[2]][pos[3]])
        /\ \A c \in Leaders(ph.quality_votes[pos[1]][pos[2]][pos[3]]) :
                IF later THEN c <= Channel(ConsensusBase(pos[1], pos[2], pos[3]))
                ELSE Channel(ConsensusBase(pos[1], pos[2], pos[3])) <= c

\* C19: when channels tie on the maximum tally of a position, the consensus
\* base is the earliest of them in the order A, T, C, G: a tie between A and
\* T yields A, a position with four tallies of 0 yields A.
C19_TieBreak == TiesGoTo(FALSE)

\* C19 as the code has it: the consensus base is the latest of the channels
\* that tie on the maximum, so a base earlier in the order A, T, C, G is
\* output only if its tally is strictly greater; a tie between A and T yields
\* T, a position with four tallies of 0 yields G.
C19_TieBreakAmended == TiesGoTo(TRUE)

\* the pairs v1, v2, v3 in one bin: G leads the first position, A and T tie
\* on the second, nothing but an N reached the third
C19_Witness ==
    /\ pc = "done"
    /\ ph.collision_resolution_method = "QualityVote"
    /\ DOMAIN ph.quality_votes = { <<"A">> }
    /\ Len(ph.quality_votes[<<"A">>][1]) = 3
    /\ Leaders(ph.quality_votes[<<"A">>][1][2]) = {1, 2}
    /\ ph.quality_votes[<<"A">>][1][2][1] > 0
    /\ ph.quality_votes[<<"A">>][1][3] = ZeroVotes
    /\ \E n \in FlushedUnder(<<"A">>) : ph.paired[n][1].seq = <<"G", "T", "G">>

-----------------------------------------------------------------------------
(* C20 *)

\* what the pair of step j gives the channel c at position i of a side: the
\* byte of its quality less the offset if its base there is of that channel
GivenBy(j, side, i, c, offset) ==
    LET rec == PairAt(j)[side]
        at == i + (IF side = 1 THEN cfg.umi_length ELSE 0)
    IN  IF at <= Min(Len(rec.seq), Len(rec.qual)) /\ Channel(rec.seq[at]) = c
        THEN Byte(rec.qual[at]) - offset
        ELSE 0

\* every tally is the sum of what the pairs of its bin gave it
TalliesAdd(offset) ==
    ph.collision_resolution_method = "QualityVote"
    => \A pos \in ConsensusPositions : \A c \in 1..4 :
        ph.quality_votes[pos[1]][pos[2]][pos[3]][c] =
            SumOver(InsertedUnder(pos[1]),
                    [j \in InsertedUnder(pos[1]) |-> GivenBy(j, pos[2], pos[3], c, offset)])

\* the offset of Phred+33
Phred33 == 33

\* C20: tallying a pair adds, at each position past the UMI, the Phred
\* integer of the quality character (its ASCII code minus 33) to the one
\* channel of the base and to no other; an N adds nothing.
C20_PhredTally == TalliesAdd(Phred33)

-----------------------------------------------------------------------------
(* C21 *)

\* the methods that keep no pair in the bin table
SeenOnlyMethods == {"KeepFirst", "None", "QualityVote"}

\* C21: under KeepFirst, None and QualityVote the retained set of every bin
\* is empty in every reachable state, and under QualityVote the vote-tally
\* map has the key set of the bin table.
C21_SeenOnlyBins ==
    /\ ph.collision_resolution_method \in SeenOnlyMethods
        => \A k \in DOMAIN ph.umi_bins : ph.umi_bins[k] = {}
    /\ ph.collision_resolution_method = "QualityVote"
        => DOMAIN ph.quality_votes = DOMAIN ph.umi_bins

\* KeepFirst, in the loop: three pairs went to two bins
C21_Witness ==
    /\ pc = "loop"
    /\ ph.collision_resolution_method = "KeepFirst"
    /\ Inserted = {1, 2, 3}
    /\ Cardinality(DOMAIN ph.umi_bins) = 2
    /\ Len(ph.paired) = 2

-----------------------------------------------------------------------------
(* C22 *)

\* C22: every key of the bin table is the key under which at least one kept
\* pair was inserted.
C22_NoOrphanBins ==
    \A k \in DOMAIN ph.umi_bins : InsertedUnder(k) # {}

\* radius 1: two bins, one of them holding a pair whose UMI is not its key
C22_Witness ==
    /\ cfg.hamming_radius = 1
    /\ Inserted = {1, 2, 3}
    /\ Cardinality(DOMAIN ph.umi_bins) = 2
    /\ \E i \in Inserted : trace[i].key # trace[i].umi
    /\ \A i \in Inserted : trace[i].key \in DOMAIN ph.umi_bins

-----------------------------------------------------------------------------
(* C23 *)

\* no counter of the handler g is below its value in h
CountersGrow(h, g) ==
    /\ h.good_records <= g.good_records
    /\ h.records_written <= g.records_written
    /\ h.records_unpaired[1] <= g.records_unpaired[1]
    /\ h.records_unpaired[2] <= g.records_unpaired[2]
    /\ \A r \in DropReasons :
            h.pair_drop_reason_count[r] <= g.pair_drop_reason_count[r]

\* C23: a key once in the bin table stays in it, and no counter ever
\* decreases, across every step of the run.
C23_Lifecycle ==
    [][ /\ DOMAIN ph.umi_bins \subseteq DOMAIN ph'.umi_bins
        /\ CountersGrow(ph, ph') ]_vars

\* a run that kept a pair, wrote a read to an unpaired output and dropped a
\* pair, in that order
C23_Witness ==
    /\ Len(trace) = 3
    /\ trace[1].verdict = "insert"
    /\ DOMAIN ph.umi_bins # {}
    /\ ph.good_records = 1
    /\ ph.records_unpaired[1] + ph.records_unpaired[2] = 1
    /\ trace[3].verdict \in DropReasons
    /\ SumDrops(ph) = 1

-----------------------------------------------------------------------------
(* C24 *)

\* the methods whose pairs are written by the flush
FlushMethods == {"KeepLast", "QualityVote"} \cup KeepLongestMethods

\* every way the flush can go from the handler h
FlushOutcomes(h) ==
    UNION { save_remaining(h, o) : o \in Orders(DOMAIN h.umi_bins) }

\* the flush, started from the handler h, does not abort and writes one pair
\* per bin under the methods in `writers` and nothing under the others
FlushWritesPerBin(h, writers) ==
    \A g \in FlushOutcomes(h) :
        /\ ~g.panicked
        /\ Len(g.paired) - Len(h.paired) =
                IF h.collision_resolution_method \in writers
                THEN Cardinality(DOMAIN h.umi_bins) ELSE 0

\* after the flush the paired output holds as many pairs as there are bins,
\* unless the method is None
WrittenIsBins ==
    (pc = "done" /\ ph.collision_resolution_method # "None")
    => Len(ph.paired) = Cardinality(DOMAIN ph.umi_bins)

\* C24: after any sequence of insertions the flush completes without
\* aborting, writes one pair per bin under KeepLast, KeepLongestLeft,
\* KeepLongestRight, KeepLongestExtend and QualityVote and nothing under
\* KeepFirst and None; so for every method but None the number of pairs
\* written after the flush is the number of bins.
C24_FlushOnePerBin ==
    /\ pc = "loop" => FlushWritesPerBin(ph, FlushMethods)
    /\ WrittenIsBins

-----------------------------------------------------------------------------
(* C25 *)

\* the steps whose UMI was a key of the bin table already
ExactHits == { i \in Inserted : trace[i].umi \in trace[i].keys_before }

\* C25: with r > 0, a kept pair whose UMI is already a key of the bin table
\* is inserted under that key, with the proactive and with the linear-scan
\* strategy, whatever other keys are within distance r.
C25_ExactHit ==
    cfg.hamming_radius > 0
    => \A i \in ExactHits : trace[i].key = trace[i].umi

\* radius 1: the bins AN and AA exist, at distance 1 of each other, and a
\* third pair with the UMI AA went to the bin AA
C25_Witness ==
    /\ cfg.hamming_radius = 1
    /\ Len(trace) = 3
    /\ 3 \in ExactHits
    /\ trace[3].umi = <<"A", "A">>
    /\ trace[3].keys_before = { <<"A", "N">>, <<"A", "A">> }
    /\ trace[3].key = <<"A", "A">>

-----------------------------------------------------------------------------
(* C26 *)

LinearScan == cfg.hamming_radius > 0 /\ ~cfg.proactive_binning

\* the step that opened the bin k
OpenedAt(k) == CHOOSE i \in InsertedUnder(k) : \A j \in InsertedUnder(k) : i <= j

\* the keys of the bin table within the radius of the UMI of step i
NearKeys(i) ==
    { k \in trace[i].keys_before : hamming(k, trace[i].umi) <= cfg.hamming_radius }

\* the linear scan at step i: a new bin iff no key is within the radius, else
\* one of the keys within the radius, the earliest opened one if `earliest`
ScanChoice(i, earliest) ==
    IF NearKeys(i) = {} THEN trace[i].key = trace[i].umi
    ELSE /\ trace[i].key \in NearKeys(i)
         /\ earliest => \A k \in NearKeys(i) : OpenedAt(trace[i].key) <= OpenedAt(k)

\* C26: with r > 0, no proactive binning and a UMI u that is not a key, the
\* chosen key is the earliest-inserted key within distance r of u, and u
\* itself iff there is none: a function of the insertion history alone.
C26_LinearScanEarliest ==
    LinearScan
    => \A i \in Inserted \ ExactHits : ScanChoice(i, TRUE)

-----------------------------------------------------------------------------
(* C27 *)

\* the steps of the neighbour enumeration: proactive binning, a method other
\* than None, a UMI that is not a key
Enumerated == IF ProactiveBins THEN Inserted \ ExactHits ELSE {}

\* the last step of the trace, if it is one of them (every step of a run is
\* the last one in the state that follows it)
LastEnumerated == Enumerated \cap {Len(trace)}

\* the place of the key k in the enumeration of the neighbours of u (0: k is
\* not enumerated)
EnumeratedAt(k, u) ==
    LET cand == neighbours(u, cfg.hamming_radius)
    IN  IF \E n \in 1..Len(cand) : cand[n] = k
        THEN CHOOSE n \in 1..Len(cand) :
                cand[n] = k /\ \A m \in 1..(n - 1) : cand[m] # k
        ELSE 0

\* k differs from u at no more than r places, and holds one of the bases A,
\* T, C, G at each of them
Substituted(k, u) ==
    /\ hamming(k, u) <= cfg.hamming_radius
    /\ \A p \in 1..Len(k) : k[p] # u[p] => k[p] \in {"A", "T", "C", "G"}

\* the keys of the bin table the enumeration at step i can meet: all those
\* within the radius, or those among them that are substitutions of the UMI
Candidates(i, substituted) ==
    { k \in NearKeys(i) : substituted => Substituted(k, trace[i].umi) }

\* the choice at step i: a new bin iff there is no candidate key, else the
\* candidate key that the enumeration meets first
EnumerationChoice(i, substituted) ==
    IF Candidates(i, substituted) = {} THEN trace[i].key = trace[i].umi
    ELSE /\ trace[i].key \in Candidates(i, substituted)
         /\ EnumeratedAt(trace[i].key, trace[i].umi) > 0
         /\ \A k \in Candidates(i, substituted) :
                EnumeratedAt(k, trace[i].umi) > 0
                => EnumeratedAt(trace[i].key, trace[i].umi) <= EnumeratedAt(k, trace[i].umi)

\* C27 as claimed: with r > 0, proactive binning, a method other than None
\* and a UMI u that is not a key, the chosen key is an existing key within
\* Hamming distance r of u whenever there is one (the first met in
\* enumeration order), and u itself exactly when no key is within distance r.
C27_NeighbourEnumeration ==
    \A i \in LastEnumerated : EnumerationChoice(i, FALSE)

\* C27 amended: the enumeration meets only the keys that differ from u at no
\* more than r positions and hold A, T, C or G at each of them; the chosen
\* key is the first such key met, and u itself exactly when there is none.
C27_NeighbourEnumerationAmended ==
    \A i \in LastEnumerated : EnumerationChoice(i, TRUE)

\* the bins AA and TT exist; the enumeration of the neighbours of the UMI AT
\* meets TT (a substitution at the first position) before AA, and the pair
\* went to TT
C27_Witness ==
    /\ Len(trace) = 3
    /\ 3 \in Enumerated
    /\ trace[3].umi = <<"A", "T">>
    /\ Candidates(3, TRUE) = { <<"A", "A">>, <<"T", "T">> }
    /\ trace[3].key = <<"T", "T">>

-----------------------------------------------------------------------------
(* C28 *)

\* the steps of the neighbour enumeration under None
EnumeratedNone ==
    IF cfg.hamming_radius > 0 /\ cfg.proactive_binning
       /\ cfg.collision_resolution_method = "None"
    THEN Inserted
    ELSE {}

\* H: the enumerated candidates of the UMI of step i that are keys of the bin
\* table
FoundKeys(i) ==
    { k \in trace[i].keys_before : EnumeratedAt(k, trace[i].umi) > 0 }

\* C28: under None with r > 0 and proactive binning the chosen key is a
\* member of H (the enumerated candidates that are keys) and the UMI itself
\* when H is empty; it is never a candidate that is neither the UMI nor a
\* key.
C28_NeighbourEnumerationNone ==
    \A i \in EnumeratedNone :
        /\ FoundKeys(i) # {} => trace[i].key \in FoundKeys(i)
        /\ FoundKeys(i) = {} => trace[i].key = trace[i].umi
        /\ trace[i].key \in {trace[i].umi} \cup trace[i].keys_before

-----------------------------------------------------------------------------
(* C29 *)

\* the step from the current state files the pair `new` under the key k of a
\* KeepLongest* bin that holds the pair `old`
ReducesInto(k, old, new) ==
    /\ pc = "loop"
    /\ ph.collision_resolution_method \in KeepLongestMethods
    /\ Len(trace') = Len(trace) + 1
    /\ trace'[Len(trace')].verdict = "insert"
    /\ trace'[Len(trace')].key = k
    /\ k \in DOMAIN ph.umi_bins
    /\ old \in ph.umi_bins[k]
    /\ new = input'[Len(input')]

\* C29: the reduction of one side returns new when new is longer (for extend
\* only if new.seq starts with old.seq, else old), old when new is shorter,
\* and at equal lengths old for left and extend and new for right; the two
\* sides of a pair are reduced independently, and a bin holds nothing but the
\* pair of the two reductions.
C29_Reduce ==
    [][ \A k \in DOMAIN ph.umi_bins : \A old \in ph.umi_bins[k] :
        \A new \in PoolOf(cfg) :
            ReducesInto(k, old, new)
            => LET mode == ph.collision_resolution_method
                   claimed(o, n) ==
                       CASE Len(n.seq) > Len(o.seq) ->
                               IF mode = "KeepLongestExtend"
                               THEN (IF SubSeq(n.seq, 1, Len(o.seq)) = o.seq THEN n ELSE o)
                               ELSE n
                         [] Len(n.seq) < Len(o.seq) -> o
                         [] OTHER -> IF mode = "KeepLongestRight" THEN n ELSE o
               IN  /\ \A side \in 1..2 :
                        _compare_for_extension(mode, old[side], new[side])
                            = claimed(old[side], new[side])
                   /\ ph'.umi_bins[k]
                        \subseteq { << claimed(old[1], new[1]), claimed(old[2], new[2]) >> }
      ]_vars

\* KeepLongestLeft: the bin AA holds the forward record of the second pair
\* (the longer one) with the reverse record of the first (of equal length)
C29_Witness ==
    /\ ph.collision_resolution_method = "KeepLongestLeft"
    /\ Inserted = {1, 2}
    /\ Len(trace) = 2
    /\ PairAt(1)[2] # PairAt(2)[2]
    /\ DOMAIN ph.umi_bins = { <<"A", "A">> }
    /\ ph.umi_bins[<<"A", "A">>] = { << PairAt(2)[1], PairAt(1)[2] >> }

-----------------------------------------------------------------------------
(* C30 *)

\* the largest member of a non-empty set of numbers
MaxOf(S) == CHOOSE x \in S : \A y \in S : y <= x

\* the number of bases of a side of the pair p that take part in the vote
VotingLength(p, side) ==
    IF side = 1 THEN Len(p[1].seq) - cfg.umi_length ELSE Len(p[2].seq)

\* every vote sequence is as long as the longest read tallied into it
VoteLengthsAreMax ==
    \A k \in DOMAIN ph.quality_votes : \A side \in 1..2 :
        Len(ph.quality_votes[k][side])
            = MaxOf({ VotingLength(PairAt(i), side) : i \in InsertedUnder(k) })

\* C30: under QualityVote the forward vote sequence of a bin is as long as
\* the longest forward read inserted under its key less the UMI, the reverse
\* one as long as the longest reverse read; across an insertion no vote
\* sequence shrinks, a position created by the extension holds (0,0,0,0) plus
\* the vote of the pair being tallied, and the tally indexes no position
\* beyond the sequence (the run does not abort).
C30_VoteLengths ==
    [][ ph.collision_resolution_method = "QualityVote"
        => /\ VoteLengthsAreMax'
           /\ ~ph'.panicked
           /\ \A k \in DOMAIN ph.quality_votes : \A side \in 1..2 :
                LET old == ph.quality_votes[k][side]
                    new == ph'.quality_votes[k][side]
                    rec == input'[Len(input')][side]
                    skip == IF side = 1 THEN cfg.umi_length ELSE 0
                IN  /\ Len(old) <= Len(new)
                    /\ \A p \in (Len(old) + 1)..Len(new) : \A c \in 1..4 :
                            new[p][c] =
                                IF Channel(rec.seq[p + skip]) = c
                                THEN Byte(rec.qual[p + skip]) ELSE 0
      ]_vars

\* a bin whose forward vote sequence grew twice: reads of 1, 2 and 3 voting
\* bases were tallied in that order
C30_Witness ==
    /\ ph.collision_resolution_method = "QualityVote"
    /\ Inserted = {1, 2, 3}
    /\ InsertedUnder(<<"A">>) = {1, 2, 3}
    /\ VotingLength(PairAt(1), 1) = 1
    /\ VotingLength(PairAt(2), 1) = 2
    /\ VotingLength(PairAt(3), 1) = 3
    /\ Len(ph.quality_votes[<<"A">>][1]) = 3
    /\ Len(ph.quality_votes[<<"A">>][2]) = 1

-----------------------------------------------------------------------------
(* C31 *)

\* the insertions that count as a good record: with `votes`, every insertion
\* under None or QualityVote and every insertion that opens a bin; without,
\* every insertion under None and every insertion that opens a bin
CountedInsertions(votes) ==
    { i \in Inserted :
        \/ ph.collision_resolution_method = "None"
        \/ votes /\ ph.collision_resolution_method = "QualityVote"
        \/ trace[i].key \notin trace[i].keys_before }

\* good_records counts those insertions and nothing else, and
\* records_written counts the pairs written to the paired output
CountersCount(votes) ==
    pc # "aborted"
    => /\ ph.good_records = Cardinality(CountedInsertions(votes))
       /\ ph.records_written = Len(ph.paired)

-----------------------------------------------------------------------------
(* C32 *)

\* the insertion under key k whose record of one side is the longest of the
\* records inserted under k: the latest such insertion, or the earliest
LongestUnder(k, side, latest) ==
    LET longest == MaxOf({ Len(PairAt(i)[side].seq) : i \in InsertedUnder(k) })
        ties == { i \in InsertedUnder(k) : Len(PairAt(i)[side].seq) = longest }
    IN  CHOOSE i \in ties :
            \A j \in ties : IF latest THEN j <= i ELSE i <= j

\* the pair a KeepLongestLeft or KeepLongestRight bin is to retain: on each
\* side the longest record inserted under k, the earliest one (left) or the
\* latest one (right) among equals
LongestPair(k) ==
    LET latest == ph.collision_resolution_method = "KeepLongestRight"
    IN  << PairAt(LongestUnder(k, 1, latest))[1],
           PairAt(LongestUnder(k, 2, latest))[2] >>

\* C32: under KeepLongestLeft and KeepLongestRight every bin retains, on the
\* forward side and independently on the reverse side, a record of maximum
\* sequence length among the records inserted under its key: the earliest
\* inserted one under KeepLongestLeft, the latest inserted one under
\* KeepLongestRight.
C32_KeepLongest ==
    (ph.collision_resolution_method \in {"KeepLongestLeft", "KeepLongestRight"}
     /\ pc = "loop")
    => \A k \in DOMAIN ph.umi_bins : LongestPair(k) \in ph.umi_bins[k]

-----------------------------------------------------------------------------
(* C33 *)

\* the steps whose pair passed the classifier and reached the binning engine
ReachedBinning == { i \in 1..Len(trace) : classify(cfg, PairAt(i)) = "keep" }

\* C33: with L > 0 the forward read of every pair that passes the classifier
\* and reaches the binning engine has at least L bases, so the UMI is its
\* first L bases, the slice never fails and |forward.seq| - L is never
\* negative, with or without a forward primer.
C33_UmiDefined ==
    cfg.umi_length > 0
    => \A i \in ReachedBinning :
            /\ Len(PairAt(i)[1].seq) >= cfg.umi_length
            /\ trace[i].verdict = "insert"
            /\ trace[i].umi = UmiOf(PairAt(i))

=============================================================================
